---- MODULE Spec2Model ----
(***************************************************************************)
(* Model of common.RemoteCommand (src/common/command.go): the coordinator  *)
(* that runs one command on many hosts over ssh, one goroutine per host,   *)
(* and aggregates the per-host results in maps guarded by a mutex.         *)
(*                                                                         *)
(* Start and every execute goroutine are modelled statement by statement;  *)
(* the ssh transport (Dial, NewSession, Output, StdoutPipe, StderrPipe,    *)
(* Start, Wait) is the environment and answers nondeterministically.       *)
(* A Go map assignment is not atomic: it is modelled as a load of the map  *)
(* followed by a store of the updated copy, so that unsynchronised writers *)
(* can lose each other's entries.  A Lock() is one step with the load that *)
(* follows it, and an Unlock() one step with the store that precedes it.   *)
(***************************************************************************)
EXTENDS Integers, Sequences, FiniteSets, TLC

\* ------------------------------------------------------------------ bounds
MaxHosts == 2

\* Host identifiers as character sequences: one without and one with a port.
HostIds == { <<"a">>, <<"b", ":", "2">> }

\* C.Server.DefaultPort rendered by strconv.Itoa
DefaultPortStr == <<"2", "2">>

\* Values the transport can answer with.
Nil == "<nil>"
DialErrs == {"dial: refused"}
SessErrs == {"session: rejected"}
RunErrs == {"exit status 1"}
PipeErrs == {"pipe: already set"}
Outputs == {"", "out1", "out2"}

\* C.Auth.User and the result of GetAuth()
AuthCases == {"nouser", "ok", "fail"}
AuthErr == "auth: no key"

AllSeqs(S, n) == UNION { [1..k -> S] : k \in 0..n }

VARIABLES
    Hosts,      \* rc.Hosts
    PipeMode,   \* rc.PipeMode
    auth,       \* configuration: C.Auth.User empty / GetAuth ok / GetAuth fails
    startPc,    \* position of the goroutine running Start
    idx,        \* loop index of the range over rc.Hosts in Start
    ret,        \* value returned by Start (Nil or the error)
    wg,         \* rc.wg counter
    lock,       \* rc.lock: 0 when free, else the worker holding it
    pc,         \* position of each execute goroutine
    err,        \* execute's local err (Dial / NewSession)
    o,          \* execute's local o
    e,          \* execute's local e
    tmp,        \* map value loaded by a map assignment in progress
    conn,       \* ssh client of each worker: "none", "open", "closed"
    sess,       \* ssh session of each worker: "none", "open", "closed"
    cmd,        \* remote command of each worker: "none", "running", "exited"
    dialed,     \* addresses passed to ssh.Dial
    Output, Error, Running, PipeOut, PipeError,   \* the shared maps
    listener,   \* receiver on rc.PipeChan: "absent", "recv", "got"
    closePc,    \* ClosePipe: "idle" before the call, "done" after it
    signalled,  \* sessions that were sent SIGTERM and closed by ClosePipe
    Gzip,       \* C.Gzip
    noHeader,   \* PrettyPrint's argument noHeader
    noHost,     \* PrettyPrint's argument noHost
    ppPc,       \* position of PrettyPrint: "idle" before the call
    ppTodo,     \* keys the range loop of PrettyPrint has yet to produce
    wo,         \* the characters written to PrettyPrint's writer wo
    we,         \* the characters written to PrettyPrint's writer we
    logged      \* the errors passed to log.Println

vars == << Hosts, PipeMode, auth, startPc, idx, ret, wg, lock, pc, err, o, e,
           tmp, conn, sess, cmd, dialed, Output, Error, Running, PipeOut,
           PipeError, listener, closePc, signalled, Gzip, noHeader, noHost,
           ppPc, ppTodo, wo, we, logged >>

cfgVars == << Hosts, PipeMode, auth >>
startVars == << startPc, idx, ret >>
localVars == << err, o, e >>
transportVars == << conn, sess, cmd, dialed >>
mapVars == << Output, Error, Running, PipeOut, PipeError >>
closeVars == << closePc, signalled >>
printVars == << Gzip, noHeader, noHost, ppPc, ppTodo, wo, we, logged >>

Workers == 1..Len(Hosts)
EmptyMap == << >>

\* a map assignment that drops the entries of the other keys
PutClobber(m, k, v) == [x \in {k} |-> v]

\* m[k] = v of a Go map
Put(m, k, v) == [x \in (DOMAIN m) \cup {k} |-> IF x = k THEN v ELSE m[x]]

\* strings.Index(host, ":") < 0
NoPort(host) == \A i \in 1..Len(host) : host[i] # ":"

\* the address execute dials
DialAddr(host) == IF NoPort(host) THEN host \o <<":">> \o DefaultPortStr ELSE host

\* PrettyPrint has not been called and nothing has been written.  C.Gzip only
\* changes the text of the command (NewRemoteCommand), which the transport
\* does not look at, so the runs of Start are explored with it off.
PrintIdle ==
    /\ noHeader = FALSE /\ noHost = FALSE
    /\ ppPc = "idle" /\ ppTodo = {}
    /\ wo = << >> /\ we = << >> /\ logged = << >>

\* ------------------------------------------------------------------ Init
\* NewRemoteCommand: empty maps, fresh WaitGroup and mutex, unbuffered PipeChan.
\* The caller may or may not have a goroutine receiving from rc.PipeChan.
Init ==
    /\ Hosts \in AllSeqs(HostIds, MaxHosts)
    /\ PipeMode \in BOOLEAN
    /\ auth \in AuthCases
    /\ startPc = "auth"
    /\ idx = 1
    /\ ret = Nil
    /\ wg = 0
    /\ lock = 0
    /\ pc = [w \in Workers |-> "idle"]
    /\ err = [w \in Workers |-> Nil]
    /\ o = [w \in Workers |-> ""]
    /\ e = [w \in Workers |-> Nil]
    /\ tmp = [w \in Workers |-> EmptyMap]
    /\ conn = [w \in Workers |-> "none"]
    /\ sess = [w \in Workers |-> "none"]
    /\ cmd = [w \in Workers |-> "none"]
    /\ dialed = {}
    /\ Output = EmptyMap
    /\ Error = EmptyMap
    /\ Running = EmptyMap
    /\ PipeOut = EmptyMap
    /\ PipeError = EmptyMap
    /\ listener \in IF PipeMode THEN {"absent", "recv"} ELSE {"absent"}
    /\ closePc = "idle"
    /\ signalled = {}
    /\ Gzip = FALSE
    /\ PrintIdle

\* ------------------------------------------------------------------ Start
\* a Start that ignores the error of GetAuth
AuthFailsIgnored == FALSE

\* if C.Auth.User != "" { cfg.Auth, err = GetAuth(); if err != nil { return err } }
AuthFails == auth = "fail"

\* where Start continues when the range over rc.Hosts has reached index i
LoopTarget(i) ==
    IF i <= Len(Hosts) THEN "add" ELSE IF PipeMode THEN "send" ELSE "wait"

\* the configuration of the client, up to the first test of the loop
StartAuth ==
    /\ startPc = "auth"
    /\ IF AuthFails
         THEN startPc' = "returned" /\ ret' = AuthErr
         ELSE startPc' = LoopTarget(idx) /\ ret' = ret
    /\ UNCHANGED << cfgVars, printVars, idx, wg, lock, pc, localVars, tmp, transportVars,
                    mapVars, listener, closeVars >>

\* rc.wg.Add(1)
StartAdd ==
    /\ startPc = "add"
    /\ wg' = wg + 1
    /\ startPc' = "go"
    /\ UNCHANGED << cfgVars, printVars, idx, ret, lock, pc, localVars, tmp, transportVars,
                    mapVars, listener, closeVars >>

\* go rc.execute(host, cfg), and the next test of the loop
StartGo ==
    /\ startPc = "go"
    /\ pc' = [pc EXCEPT ![idx] = "dial"]
    /\ idx' = idx + 1
    /\ startPc' = LoopTarget(idx + 1)
    /\ UNCHANGED << cfgVars, printVars, ret, wg, lock, localVars, tmp, transportVars,
                    mapVars, listener, closeVars >>

\* rc.PipeChan <- true on an unbuffered channel: completes only together with
\* a receiver that is blocked in the receive.
StartSend ==
    /\ startPc = "send"
    /\ listener = "recv"
    /\ listener' = "got"
    /\ startPc' = "wait"
    /\ UNCHANGED << cfgVars, printVars, idx, ret, wg, lock, pc, localVars, tmp,
                    transportVars, mapVars, closeVars >>

\* a Wait that returns while one worker has yet to call Done
WaitPassesEarly == wg <= 1

\* rc.wg.Wait() returns when the counter is zero
WaitPasses == wg = 0

StartWait ==
    /\ startPc = "wait"
    /\ WaitPasses
    /\ startPc' = "returned"
    /\ ret' = Nil
    /\ UNCHANGED << cfgVars, printVars, idx, wg, lock, pc, localVars, tmp, transportVars,
                    mapVars, listener, closeVars >>

\* the next statement of Start
StartNext == StartAuth \/ StartAdd \/ StartGo \/ StartSend \/ StartWait

\* ---------------------------------------------------------------- execute
\* a Lock that never blocks
LockFreeAlways == TRUE

\* rc.lock.Lock() succeeds only while no goroutine holds the mutex
LockFree == lock = 0

Goto(w, label) == pc' = [pc EXCEPT ![w] = label]

\* client, err := ssh.Dial("tcp", host, cfg)
Dial(w) ==
    /\ pc[w] = "dial"
    /\ dialed' = dialed \cup {DialAddr(Hosts[w])}
    /\ \/ \E x \in DialErrs :
            /\ err' = [err EXCEPT ![w] = x]
            /\ Goto(w, "dfLock")
            /\ conn' = conn
       \/ /\ conn' = [conn EXCEPT ![w] = "open"]
          /\ Goto(w, "newSess")
          /\ err' = err
    /\ UNCHANGED << cfgVars, printVars, startVars, wg, lock, o, e, tmp, sess, cmd,
                    mapVars, listener, closeVars >>

\* dial failure: rc.lock.Lock(), and rc.Error[ohost] = ... reading the map
DialFailLock(w) ==
    /\ pc[w] = "dfLock"
    /\ LockFree
    /\ lock' = w
    /\ tmp' = [tmp EXCEPT ![w] = Error]
    /\ Goto(w, "dfStore")
    /\ UNCHANGED << cfgVars, printVars, startVars, wg, localVars, transportVars,
                    mapVars, listener, closeVars >>

\* a dial-failure path that returns without rc.lock.Unlock()
DialFailStoreKeepsLock(w) ==
    /\ pc[w] = "dfStore"
    /\ Error' = Put(tmp[w], Hosts[w], err[w])
    /\ tmp' = [tmp EXCEPT ![w] = EmptyMap]
    /\ Goto(w, "dfDone")
    /\ UNCHANGED << cfgVars, printVars, startVars, wg, lock, localVars, transportVars,
                    Output, Running, PipeOut, PipeError, listener, closeVars >>

\* dial failure: rc.Error[ohost] = err.Error() writing the map, rc.lock.Unlock()
DialFailStore(w) ==
    /\ pc[w] = "dfStore"
    /\ Error' = Put(tmp[w], Hosts[w], err[w])
    /\ tmp' = [tmp EXCEPT ![w] = EmptyMap]
    /\ lock' = 0
    /\ Goto(w, "dfDone")
    /\ UNCHANGED << cfgVars, printVars, startVars, wg, localVars, transportVars,
                    Output, Running, PipeOut, PipeError, listener, closeVars >>

\* dial failure: rc.wg.Done(); return
DialFailDone(w) ==
    /\ pc[w] = "dfDone"
    /\ wg' = wg - 1
    /\ Goto(w, "done")
    /\ UNCHANGED << cfgVars, printVars, startVars, lock, localVars, tmp, transportVars,
                    mapVars, listener, closeVars >>

\* a NewSession whose failure path falls through to the branch on rc.PipeMode
NewSessionFallsThrough(w) ==
    /\ pc[w] = "newSess"
    /\ \/ \E x \in SessErrs :
            /\ err' = [err EXCEPT ![w] = x]
            /\ Goto(w, IF PipeMode THEN "regLoad" ELSE "output")
            /\ sess' = sess
       \/ /\ sess' = [sess EXCEPT ![w] = "open"]
          /\ Goto(w, IF PipeMode THEN "regLoad" ELSE "output")
          /\ err' = err
    /\ UNCHANGED << cfgVars, printVars, startVars, wg, lock, o, e, tmp, conn, cmd, dialed,
                    mapVars, listener, closeVars >>

\* sess, err := client.NewSession(); on success the branch on rc.PipeMode
NewSession(w) ==
    /\ pc[w] = "newSess"
    /\ \/ \E x \in SessErrs :
            /\ err' = [err EXCEPT ![w] = x]
            /\ Goto(w, "sfLock")
            /\ sess' = sess
       \/ /\ sess' = [sess EXCEPT ![w] = "open"]
          /\ Goto(w, IF PipeMode THEN "regLoad" ELSE "output")
          /\ err' = err
    /\ UNCHANGED << cfgVars, printVars, startVars, wg, lock, o, e, tmp, conn, cmd, dialed,
                    mapVars, listener, closeVars >>

\* session failure: rc.lock.Lock(), and rc.Error[ohost] = ... reading the map
SessFailLock(w) ==
    /\ pc[w] = "sfLock"
    /\ LockFree
    /\ lock' = w
    /\ tmp' = [tmp EXCEPT ![w] = Error]
    /\ Goto(w, "sfStore")
    /\ UNCHANGED << cfgVars, printVars, startVars, wg, localVars, transportVars,
                    mapVars, listener, closeVars >>

\* a session-failure store keyed by the address that was dialed
SessFailStoreDialKey(w) ==
    /\ pc[w] = "sfStore"
    /\ Error' = Put(tmp[w], DialAddr(Hosts[w]), err[w])
    /\ tmp' = [tmp EXCEPT ![w] = EmptyMap]
    /\ lock' = 0
    /\ Goto(w, "deferred")
    /\ UNCHANGED << cfgVars, printVars, startVars, wg, localVars, transportVars,
                    Output, Running, PipeOut, PipeError, listener, closeVars >>

\* session failure: rc.Error[ohost] = err.Error() writing the map,
\* rc.lock.Unlock(), return: there is no rc.wg.Done() on this path, and the
\* return runs the deferred client.Close()
SessFailStore(w) ==
    /\ pc[w] = "sfStore"
    /\ Error' = Put(tmp[w], Hosts[w], err[w])
    /\ tmp' = [tmp EXCEPT ![w] = EmptyMap]
    /\ lock' = 0
    /\ Goto(w, "deferred")
    /\ UNCHANGED << cfgVars, printVars, startVars, wg, localVars, transportVars,
                    Output, Running, PipeOut, PipeError, listener, closeVars >>

\* ---- Capture mode
\* o, e = sess.Output(rc.Cmd): runs the command to completion
SessOutput(w) ==
    /\ pc[w] = "output"
    /\ \E out \in Outputs, x \in {Nil} \cup RunErrs :
            /\ o' = [o EXCEPT ![w] = out]
            /\ e' = [e EXCEPT ![w] = x]
    /\ cmd' = [cmd EXCEPT ![w] = "exited"]
    /\ Goto(w, "cLock")
    /\ UNCHANGED << cfgVars, printVars, startVars, wg, lock, err, tmp, conn, sess, dialed,
                    mapVars, listener, closeVars >>

\* rc.lock.Lock(), and rc.Output[ohost] = ... reading the map
CaptureLock(w) ==
    /\ pc[w] = "cLock"
    /\ LockFree
    /\ lock' = w
    /\ tmp' = [tmp EXCEPT ![w] = Output]
    /\ Goto(w, "cOutStore")
    /\ UNCHANGED << cfgVars, printVars, startVars, wg, localVars, transportVars,
                    mapVars, listener, closeVars >>

\* rc.Output[ohost] = string(o) writing the map; then if e != nil,
\* rc.Error[ohost] = ... reading the map, else rc.lock.Unlock()
CaptureOutStore(w) ==
    /\ pc[w] = "cOutStore"
    /\ Output' = Put(tmp[w], Hosts[w], o[w])
    /\ IF e[w] # Nil
         THEN /\ tmp' = [tmp EXCEPT ![w] = Error]
              /\ lock' = lock
              /\ Goto(w, "cErrStore")
         ELSE /\ tmp' = [tmp EXCEPT ![w] = EmptyMap]
              /\ lock' = 0
              /\ Goto(w, "cDone")
    /\ UNCHANGED << cfgVars, printVars, startVars, wg, localVars, transportVars,
                    Error, Running, PipeOut, PipeError, listener, closeVars >>

\* an error store that comes after the lock was released and taken again
CaptureErrStoreRelocked(w) ==
    /\ pc[w] = "cErrStore"
    /\ \/ /\ lock = w
          /\ lock' = 0
          /\ UNCHANGED << Error, tmp, pc >>
       \/ /\ lock = 0
          /\ Error' = Put(Error, Hosts[w], e[w])
          /\ tmp' = [tmp EXCEPT ![w] = EmptyMap]
          /\ lock' = 0
          /\ Goto(w, "cDone")
    /\ UNCHANGED << cfgVars, printVars, startVars, wg, localVars, transportVars,
                    Output, Running, PipeOut, PipeError, listener, closeVars >>

\* rc.Error[ohost] = e.Error() writing the map, rc.lock.Unlock()
CaptureErrStore(w) ==
    /\ pc[w] = "cErrStore"
    /\ Error' = Put(tmp[w], Hosts[w], e[w])
    /\ tmp' = [tmp EXCEPT ![w] = EmptyMap]
    /\ lock' = 0
    /\ Goto(w, "cDone")
    /\ UNCHANGED << cfgVars, printVars, startVars, wg, localVars, transportVars,
                    Output, Running, PipeOut, PipeError, listener, closeVars >>

\* rc.wg.Done(); falling off the end of execute runs the deferred closes
CaptureDone(w) ==
    /\ pc[w] = "cDone"
    /\ wg' = wg - 1
    /\ Goto(w, "deferred")
    /\ UNCHANGED << cfgVars, printVars, startVars, lock, localVars, tmp, transportVars,
                    mapVars, listener, closeVars >>

\* deferred closes that skip client.Close() when no session was opened
RunDeferredLeaks(w) ==
    /\ pc[w] = "deferred"
    /\ sess' = [sess EXCEPT ![w] = IF @ = "none" THEN @ ELSE "closed"]
    /\ conn' = [conn EXCEPT ![w] = IF sess[w] = "none" THEN @ ELSE "closed"]
    /\ Goto(w, "done")
    /\ UNCHANGED << cfgVars, printVars, startVars, wg, lock, localVars, tmp, cmd,
                    dialed, mapVars, listener, closeVars >>

\* the deferred sess.Close() (when a session was opened) and client.Close();
\* the goroutine ends
RunDeferred(w) ==
    /\ pc[w] = "deferred"
    /\ sess' = [sess EXCEPT ![w] = IF @ = "none" THEN @ ELSE "closed"]
    /\ conn' = [conn EXCEPT ![w] = "closed"]
    /\ Goto(w, "done")
    /\ UNCHANGED << cfgVars, printVars, startVars, wg, lock, localVars, tmp, cmd,
                    dialed, mapVars, listener, closeVars >>


\* ---- Stream mode (rc.PipeMode)
\* the reader handles a session hands out; a failed call yields the nil reader
Reader(kind, w) == [kind |-> kind, of |-> w]
NilReader == [kind |-> "nil", of |-> 0]

\* rc.Running[ohost] = sess, reading the map (no lock is taken on this path)
RegRunningLoad(w) ==
    /\ pc[w] = "regLoad"
    /\ tmp' = [tmp EXCEPT ![w] = Running]
    /\ Goto(w, "regStore")
    /\ UNCHANGED << cfgVars, printVars, startVars, wg, lock, localVars, transportVars,
                    mapVars, listener, closeVars >>

\* rc.Running[ohost] = sess, writing the map
RegRunningStore(w) ==
    /\ pc[w] = "regStore"
    /\ Running' = Put(tmp[w], Hosts[w], w)
    /\ tmp' = [tmp EXCEPT ![w] = EmptyMap]
    /\ Goto(w, "stdoutPipe")
    /\ UNCHANGED << cfgVars, printVars, startVars, wg, lock, localVars, transportVars,
                    Output, Error, PipeOut, PipeError, listener, closeVars >>

\* rc.PipeOut[ohost], e = sess.StdoutPipe(): the call, and the map read
StdoutPipeCall(w) ==
    /\ pc[w] = "stdoutPipe"
    /\ \E x \in {Nil} \cup PipeErrs : e' = [e EXCEPT ![w] = x]
    /\ tmp' = [tmp EXCEPT ![w] = PipeOut]
    /\ Goto(w, "stdoutStore")
    /\ UNCHANGED << cfgVars, printVars, startVars, wg, lock, err, o, transportVars,
                    mapVars, listener, closeVars >>

\* rc.PipeOut[ohost], e = sess.StdoutPipe(): the map write
StdoutPipeStore(w) ==
    /\ pc[w] = "stdoutStore"
    /\ PipeOut' = Put(tmp[w], Hosts[w],
                      IF e[w] = Nil THEN Reader("stdout", w) ELSE NilReader)
    /\ tmp' = [tmp EXCEPT ![w] = EmptyMap]
    /\ Goto(w, "stderrPipe")
    /\ UNCHANGED << cfgVars, printVars, startVars, wg, lock, localVars, transportVars,
                    Output, Error, Running, PipeError, listener, closeVars >>

\* rc.PipeError[ohost], e = sess.StderrPipe(): the call, and the map read
StderrPipeCall(w) ==
    /\ pc[w] = "stderrPipe"
    /\ \E x \in {Nil} \cup PipeErrs : e' = [e EXCEPT ![w] = x]
    /\ tmp' = [tmp EXCEPT ![w] = PipeError]
    /\ Goto(w, "stderrStore")
    /\ UNCHANGED << cfgVars, printVars, startVars, wg, lock, err, o, transportVars,
                    mapVars, listener, closeVars >>

\* rc.PipeError[ohost], e = sess.StderrPipe(): the map write
StderrPipeStore(w) ==
    /\ pc[w] = "stderrStore"
    /\ PipeError' = Put(tmp[w], Hosts[w],
                        IF e[w] = Nil THEN Reader("stderr", w) ELSE NilReader)
    /\ tmp' = [tmp EXCEPT ![w] = EmptyMap]
    /\ Goto(w, "sessStart")
    /\ UNCHANGED << cfgVars, printVars, startVars, wg, lock, localVars, transportVars,
                    Output, Error, Running, PipeOut, listener, closeVars >>

\* e = sess.Start(rc.Cmd): starts the remote command without waiting for it;
\* it can only succeed on a session that is still open
SessStart(w) ==
    /\ pc[w] = "sessStart"
    /\ \/ /\ sess[w] = "open"
          /\ e' = [e EXCEPT ![w] = Nil]
          /\ cmd' = [cmd EXCEPT ![w] = "running"]
       \/ /\ \E x \in RunErrs : e' = [e EXCEPT ![w] = x]
          /\ cmd' = cmd
    /\ Goto(w, "sessWait")
    /\ UNCHANGED << cfgVars, printVars, startVars, wg, lock, err, o, tmp, conn, sess,
                    dialed, mapVars, listener, closeVars >>

\* the remote command exits by itself
RemoteExit(w) ==
    /\ cmd[w] = "running"
    /\ cmd' = [cmd EXCEPT ![w] = "exited"]
    /\ UNCHANGED << cfgVars, printVars, startVars, wg, lock, pc, localVars, tmp, conn,
                    sess, dialed, mapVars, listener, closeVars >>

\* a sess.Wait() that returns whether or not the remote command has exited
SessWaitNoBlock(w) ==
    /\ pc[w] = "sessWait"
    /\ IF cmd[w] = "none"
         THEN \E x \in RunErrs : e' = [e EXCEPT ![w] = x]
         ELSE \E x \in {Nil} \cup RunErrs : e' = [e EXCEPT ![w] = x]
    /\ Goto(w, "pipeDone")
    /\ UNCHANGED << cfgVars, printVars, startVars, wg, lock, err, o, tmp, transportVars,
                    mapVars, listener, closeVars >>

\* e = sess.Wait(): returns once the remote command has exited (at once, with
\* an error, when it was never started)
SessWait(w) ==
    /\ pc[w] = "sessWait"
    /\ cmd[w] # "running"
    /\ IF cmd[w] = "none"
         THEN \E x \in RunErrs : e' = [e EXCEPT ![w] = x]
         ELSE \E x \in {Nil} \cup RunErrs : e' = [e EXCEPT ![w] = x]
    /\ Goto(w, "pipeDone")
    /\ UNCHANGED << cfgVars, printVars, startVars, wg, lock, err, o, tmp, transportVars,
                    mapVars, listener, closeVars >>

\* rc.wg.Done(); return, which runs the deferred closes
PipeDone(w) ==
    /\ pc[w] = "pipeDone"
    /\ wg' = wg - 1
    /\ Goto(w, "deferred")
    /\ UNCHANGED << cfgVars, printVars, startVars, lock, localVars, tmp, transportVars,
                    mapVars, listener, closeVars >>

\* --------------------------------------------------------------- ClosePipe
\* for _, sess := range rc.Running { sess.Signal(ssh.SIGTERM); sess.Close() }
\* The whole call is one step; it takes no lock.  The caller calls it at most
\* once, at any moment after calling Start.  A closed session ends the remote
\* command that runs in it.
ClosedBy(m) == { m[h] : h \in DOMAIN m }

\* a ClosePipe that goes over every open session instead of over rc.Running
ClosePipeEverySession ==
    /\ closePc = "idle"
    /\ startPc # "auth"
    /\ closePc' = "done"
    /\ signalled' = { w \in Workers : sess[w] = "open" }
    /\ sess' = [w \in Workers |-> IF sess[w] = "open" THEN "closed" ELSE sess[w]]
    /\ cmd' = [w \in Workers |->
                 IF sess[w] = "open" /\ cmd[w] = "running" THEN "exited" ELSE cmd[w]]
    /\ UNCHANGED << cfgVars, printVars, startVars, wg, lock, pc, localVars, tmp, conn,
                    dialed, mapVars, listener >>

ClosePipe ==
    /\ closePc = "idle"
    /\ startPc # "auth"
    /\ closePc' = "done"
    /\ signalled' = ClosedBy(Running)
    /\ sess' = [w \in Workers |-> IF w \in ClosedBy(Running) THEN "closed" ELSE sess[w]]
    /\ cmd' = [w \in Workers |->
                 IF w \in ClosedBy(Running) /\ cmd[w] = "running" THEN "exited" ELSE cmd[w]]
    /\ UNCHANGED << cfgVars, printVars, startVars, wg, lock, pc, localVars, tmp, conn,
                    dialed, mapVars, listener >>

\* ------------------------------------------------------------------- Next
\* the statements of execute that both modes run
CommonWorker(w) ==
    \/ Dial(w) \/ DialFailLock(w) \/ DialFailStore(w) \/ DialFailDone(w)
    \/ NewSession(w) \/ SessFailLock(w) \/ SessFailStore(w)
    \/ RunDeferred(w)

\* the statements of execute after the test of rc.PipeMode, when it is false
CaptureWorker(w) ==
    \/ SessOutput(w) \/ CaptureLock(w) \/ CaptureOutStore(w)
    \/ CaptureErrStore(w) \/ CaptureDone(w)

\* the statements of execute inside if rc.PipeMode { ... }
StreamWorker(w) ==
    \/ RegRunningLoad(w) \/ RegRunningStore(w) \/ StdoutPipeCall(w)
    \/ StdoutPipeStore(w) \/ StderrPipeCall(w) \/ StderrPipeStore(w)
    \/ SessStart(w) \/ SessWait(w) \/ PipeDone(w)

Worker(w) == CommonWorker(w) \/ CaptureWorker(w) \/ StreamWorker(w)

Next ==
    \/ StartAuth \/ StartAdd \/ StartGo \/ StartSend \/ StartWait
    \/ \E w \in Workers : CommonWorker(w)
    \/ \E w \in Workers : CaptureWorker(w)
    \/ \E w \in Workers : StreamWorker(w)
    \/ \E w \in Workers : RemoteExit(w)
    \/ ClosePipe

\* every run, in either mode
Spec == Init /\ [][Next]_vars

\* the runs with rc.PipeMode false: Start never sends on rc.PipeChan and no
\* worker enters the stream branch
InitCapture == Init /\ ~PipeMode

NextCapture ==
    \/ StartAuth \/ StartAdd \/ StartGo \/ StartWait
    \/ \E w \in Workers : CommonWorker(w)
    \/ \E w \in Workers : CaptureWorker(w)
    \/ ClosePipe

SpecCapture == InitCapture /\ [][NextCapture]_vars

\* the runs with rc.PipeMode true
InitStream == Init /\ PipeMode

NextStream ==
    \/ StartAuth \/ StartAdd \/ StartGo \/ StartSend \/ StartWait
    \/ \E w \in Workers : CommonWorker(w)
    \/ \E w \in Workers : StreamWorker(w)
    \/ \E w \in Workers : RemoteExit(w)
    \/ ClosePipe

SpecStream == InitStream /\ [][NextStream]_vars


\* ------------------------------------------------------------- PrettyPrint
\* Texts are sequences of characters.
MaxText == 3
MaxErrText == 2
LabelWidth == 15
RuleWidth == 33
Chars == {"x", "\n"}
Texts == AllSeqs(Chars, MaxText)
ErrTexts == AllSeqs(Chars, MaxErrText)

Rep(c, n) == [i \in 1..n |-> c]
Rule == Rep("=", RuleWidth)
ErrorHeader == Rule \o <<" ", "E", "R", "R", "O", "R", " ">> \o Rule \o <<"\n">>
OutputHeader == Rule \o <<" ", "O", "U", "T", "P", "U", "T", " ">> \o Rule

\* a trim that removes one trailing newline only
TrimRightOnce(s) ==
    IF Len(s) > 0 /\ s[Len(s)] = "\n" THEN SubSeq(s, 1, Len(s) - 1) ELSE s

\* strings.TrimRight(s, "\n") and bytes.TrimRight(data, "\n")
RECURSIVE TrimRight(_)
TrimRight(s) ==
    IF Len(s) > 0 /\ s[Len(s)] = "\n" THEN TrimRight(SubSeq(s, 1, Len(s) - 1)) ELSE s

\* strings.Contains(s, "\n") and bytes.Contains(data, []byte("\n"))
ContainsNewline(s) == \E i \in 1..Len(s) : s[i] = "\n"

\* fmt.Fprintln: the operands separated by one space, then a newline
RECURSIVE JoinSpace(_)
JoinSpace(ops) ==
    IF Len(ops) = 0 THEN << >>
    ELSE IF Len(ops) = 1 THEN ops[1]
    ELSE ops[1] \o <<" ">> \o JoinSpace(Tail(ops))
Fprintln(ops) == JoinSpace(ops) \o <<"\n">>

\* fmt.Fprintf(wo, "%15s: ", h): h padded with spaces on the left to the width
PadLeft(h) ==
    (IF Len(h) < LabelWidth THEN Rep(" ", LabelWidth - Len(h)) ELSE << >>) \o h
FprintfLabel(h) == PadLeft(h) \o <<":", " ">>

\* ---- gzip
\* A gzip stream is a header, the deflated body and a trailer holding the
\* length of the text.  The header is the character "G", deflate writes "X"
\* for "x" and "N" for a newline, and the trailer is the length as a digit.
Deflate(c) == IF c = "x" THEN "X" ELSE "N"
GzipOf(t) == <<"G">> \o [i \in 1..Len(t) |-> Deflate(t[i])] \o <<ToString(Len(t))>>

\* err of gzip.NewReader: the header is read eagerly
NewReaderErr(s) ==
    IF Len(s) = 0 THEN "EOF"
    ELSE IF s[1] # "G" THEN "gzip: invalid header"
    ELSE Nil

\* the position after the last deflated character of the body
RECURSIVE BodyEnd(_, _)
BodyEnd(s, p) == IF p <= Len(s) /\ s[p] \in {"X", "N"} THEN BodyEnd(s, p + 1) ELSE p

Inflate(c) == IF c = "X" THEN "x" ELSE "\n"

\* data of ioutil.ReadAll(gr): what was inflated before the stream ended or
\* an error was met
ReadAllData(s) == [i \in 1..(BodyEnd(s, 2) - 2) |-> Inflate(s[i + 1])]

\* err of ioutil.ReadAll(gr)
ReadAllErr(s) ==
    LET p == BodyEnd(s, 2) IN
    IF p > Len(s) THEN "unexpected EOF"
    ELSE IF s[p] \notin { ToString(n) : n \in 0..9 } THEN "flate: corrupt input"
    ELSE IF s[p] # ToString(p - 2) THEN "gzip: invalid checksum"
    ELSE IF p < Len(s) THEN "gzip: invalid header"
    ELSE Nil

\* Stored outputs that are not the gzip stream of a text: nothing at all, a
\* text that was never compressed, and streams that are cut short, have
\* a damaged body or carry a wrong trailer.
Truncated(s) == SubSeq(s, 1, Len(s) - 1)
Damaged ==
    { << >>, <<"x">>,
      Truncated(GzipOf(<<"x">>)),
      Truncated(GzipOf(<<"x", "\n", "x">>)),
      <<"G", "X", "?", "X", "3">>,
      <<"G", "X", "0">> }
Stored == { GzipOf(t) : t \in Texts } \cup Damaged

\* ---- the call
Maps(K, V) == UNION { [D -> V] : D \in SUBSET K }

\* Start has returned and its maps hold results; PrettyPrint is not yet called.
InitPrint ==
    /\ Hosts = CHOOSE hs \in [1..Cardinality(HostIds) -> HostIds] :
                   \A i, j \in DOMAIN hs : hs[i] = hs[j] => i = j
    /\ PipeMode = FALSE
    /\ auth = "nouser"
    /\ startPc = "returned"
    /\ idx = Len(Hosts) + 1
    /\ ret = Nil
    /\ wg = 0
    /\ lock = 0
    /\ pc = [w \in Workers |-> "done"]
    /\ err = [w \in Workers |-> Nil]
    /\ o = [w \in Workers |-> ""]
    /\ e = [w \in Workers |-> Nil]
    /\ tmp = [w \in Workers |-> EmptyMap]
    /\ conn = [w \in Workers |-> "closed"]
    /\ sess = [w \in Workers |-> "closed"]
    /\ cmd = [w \in Workers |-> "exited"]
    /\ dialed = { DialAddr(h) : h \in HostIds }
    /\ Gzip \in BOOLEAN
    /\ Output \in Maps(HostIds, IF Gzip THEN Stored ELSE Texts)
    /\ Error \in Maps(HostIds, ErrTexts)
    /\ Running = EmptyMap
    /\ PipeOut = EmptyMap
    /\ PipeError = EmptyMap
    /\ listener = "absent"
    /\ closePc = "idle"
    /\ signalled = {}
    /\ PrintIdle

notPrintVars == << Hosts, PipeMode, auth, startVars, wg, lock, pc, localVars, tmp,
                   transportVars, mapVars, listener, closeVars >>

\* the call with its arguments, up to the loop over rc.Error
PrettyPrint ==
    /\ ppPc = "idle"
    /\ noHeader' \in BOOLEAN
    /\ noHost' \in BOOLEAN
    /\ IF DOMAIN Error # {} /\ ~noHost'
       THEN /\ we' = IF noHeader' THEN we ELSE we \o ErrorHeader
            /\ ppTodo' = DOMAIN Error
            /\ ppPc' = "errLoop"
       ELSE /\ we' = we
            /\ ppTodo' = {}
            /\ ppPc' = "outputs"
    /\ UNCHANGED << notPrintVars, Gzip, wo, logged >>

\* an iteration over rc.Error that writes the error text as it is stored
PrintErrorUntrimmed(h) ==
    /\ ppPc = "errLoop"
    /\ h \in ppTodo
    /\ LET t == Error[h] IN
       we' = we \o (IF ContainsNewline(t)
                    THEN Fprintln(<< h, <<":", "\n">>, t >>)
                    ELSE Fprintln(<< h, <<":">>, t >>))
    /\ ppTodo' = ppTodo \ {h}
    /\ ppPc' = IF ppTodo' = {} THEN "outputs" ELSE "errLoop"
    /\ UNCHANGED << notPrintVars, Gzip, noHeader, noHost, wo, logged >>

\* one iteration of for h, e := range rc.Error
PrintError(h) ==
    /\ ppPc = "errLoop"
    /\ h \in ppTodo
    /\ LET t == TrimRight(Error[h]) IN
       we' = we \o (IF ContainsNewline(t)
                    THEN Fprintln(<< h, <<":", "\n">>, t >>)
                    ELSE Fprintln(<< h, <<":">>, t >>))
    /\ ppTodo' = ppTodo \ {h}
    /\ ppPc' = IF ppTodo' = {} THEN "outputs" ELSE "errLoop"
    /\ UNCHANGED << notPrintVars, Gzip, noHeader, noHost, wo, logged >>

\* if len(rc.Output) > 0, up to the loop over rc.Output
PrintOutputs ==
    /\ ppPc = "outputs"
    /\ IF DOMAIN Output # {}
       THEN /\ wo' = IF noHeader THEN wo ELSE wo \o Fprintln(<< OutputHeader >>)
            /\ ppTodo' = DOMAIN Output
            /\ ppPc' = "outLoop"
       ELSE /\ wo' = wo
            /\ ppTodo' = {}
            /\ ppPc' = "done"
    /\ UNCHANGED << notPrintVars, Gzip, noHeader, noHost, we, logged >>

\* the writes of one iteration for the bytes data of host h
WriteRecord(h, data) ==
    (IF noHost THEN << >>
     ELSE FprintfLabel(h) \o (IF ContainsNewline(data) THEN <<"\n">> ELSE << >>))
    \o data \o <<"\n">>

NextOutput(h) ==
    /\ ppTodo' = ppTodo \ {h}
    /\ ppPc' = IF ppTodo' = {} THEN "done" ELSE "outLoop"

\* one iteration of for h, o := range rc.Output when C.Gzip is off
PrintOutputPlain(h) ==
    /\ ppPc = "outLoop"
    /\ h \in ppTodo
    /\ ~Gzip
    /\ wo' = wo \o WriteRecord(h, TrimRight(Output[h]))
    /\ NextOutput(h)
    /\ UNCHANGED << notPrintVars, Gzip, noHeader, noHost, we, logged >>

\* one iteration of for h, o := range rc.Output when C.Gzip is on
PrintOutputGzip(h) ==
    /\ ppPc = "outLoop"
    /\ h \in ppTodo
    /\ Gzip
    /\ IF NewReaderErr(Output[h]) # Nil
       THEN /\ logged' = Append(logged, NewReaderErr(Output[h]))
            /\ wo' = wo
       ELSE /\ logged' = IF ReadAllErr(Output[h]) # Nil
                         THEN Append(logged, ReadAllErr(Output[h]))
                         ELSE logged
            /\ wo' = wo \o WriteRecord(h, TrimRight(ReadAllData(Output[h])))
    /\ NextOutput(h)
    /\ UNCHANGED << notPrintVars, Gzip, noHeader, noHost, we >>

NextPrint ==
    \/ PrettyPrint
    \/ \E h \in HostIds : PrintError(h)
    \/ PrintOutputs
    \/ \E h \in HostIds : PrintOutputPlain(h)
    \/ \E h \in HostIds : PrintOutputGzip(h)

SpecPrint == InitPrint /\ [][NextPrint]_vars

\* ================================================================= claims
Returned == startPc = "returned"
ReturnedNil == Returned /\ ret = Nil
HostSet == { Hosts[w] : w \in Workers }
SameHost(w) == { v \in Workers : Hosts[v] = Hosts[w] }
DistinctHosts == \A v, w \in Workers : Hosts[v] = Hosts[w] => v = w

\* what happened to worker w, read off its local variables
DialFailed(w) == err[w] \in DialErrs
SessFailed(w) == err[w] \in SessErrs
RanCommand(w) == ~PipeMode /\ cmd[w] = "exited"
CmdFailed(w) == RanCommand(w) /\ e[w] # Nil
Succeeded(w) == RanCommand(w) /\ e[w] = Nil
Failed(w) == DialFailed(w) \/ SessFailed(w) \/ CmdFailed(w)
ErrText(w) == IF CmdFailed(w) THEN e[w] ELSE err[w]
AllEnded == \A w \in Workers : pc[w] = "done"
InOutput(h) == h \in DOMAIN Output
InError(h) == h \in DOMAIN Error
MapsEmpty ==
    /\ Output = EmptyMap /\ Error = EmptyMap /\ Running = EmptyMap
    /\ PipeOut = EmptyMap /\ PipeError = EmptyMap

\* ---- C1
\* C1 as stated: in Capture mode, once Start has returned (without an error
\* of its own) on a non-empty host sequence, every host is a key of exactly
\* one of Output and Error.
C1_ExactlyOneMap ==
    (~PipeMode /\ ReturnedNil /\ Len(Hosts) > 0) =>
        \A w \in Workers : ~(InOutput(Hosts[w]) <=> InError(Hosts[w]))

\* C1 amended: in Capture mode, once Start has returned on a non-empty host
\* sequence, every host is a key of at least one of Output and Error; a
\* host whose command ran and ended with an error is a key of both, a host
\* whose dial failed is a key of Error, and a host is a key of both only if a
\* worker for it ran its command and a worker for it failed.
C1_AtLeastOneMap ==
    (~PipeMode /\ ReturnedNil /\ Len(Hosts) > 0) =>
        \A w \in Workers :
            /\ InOutput(Hosts[w]) \/ InError(Hosts[w])
            /\ CmdFailed(w) => InOutput(Hosts[w]) /\ InError(Hosts[w])
            /\ DialFailed(w) => InError(Hosts[w])
            /\ Succeeded(w) => InOutput(Hosts[w])
            /\ (InOutput(Hosts[w]) /\ InError(Hosts[w])) =>
                  /\ \E v \in SameHost(w) : RanCommand(v)
                  /\ \E v \in SameHost(w) : Failed(v)

\* C1 witness: Start has returned in Capture mode with one host in both maps
\* (its command failed) and another host in Error alone (its dial failed).
C1_Witness ==
    /\ ~PipeMode /\ ReturnedNil /\ DistinctHosts
    /\ \E v, w \in Workers :
          /\ CmdFailed(v) /\ InOutput(Hosts[v]) /\ InError(Hosts[v])
          /\ DialFailed(w) /\ InError(Hosts[w]) /\ ~InOutput(Hosts[w])

\* ---- C2
\* C2: in Capture mode Start eventually returns whatever the per-host
\* outcomes; stated on finite runs: once every worker has ended, Start has
\* returned or its wait can return.
C2_StartCanReturn ==
    (~PipeMode /\ auth # "fail" /\ AllEnded /\ startPc \notin {"auth", "add", "go"}) =>
        (Returned \/ ENABLED StartWait)

\* ---- C3
\* C3 as stated: in Capture mode Start never returns while a worker is still
\* running: when Start has returned, every worker has finished.
C3_NoWorkerRunning ==
    (~PipeMode /\ ReturnedNil) => AllEnded

\* C3 amended: in Capture mode, at the moment Start returns every worker
\* launched for a host has already written its result to the shared maps,
\* released the lock and signalled completion; only its deferred closes of
\* the session and the connection may still be pending.
C3_ResultsWrittenAtReturn ==
    (~PipeMode /\ ReturnedNil) =>
        /\ lock = 0
        /\ \A w \in Workers :
            /\ pc[w] \in {"deferred", "done"}
            /\ tmp[w] = EmptyMap
            /\ Failed(w) \/ Succeeded(w)
            /\ DialFailed(w) \/ SessFailed(w) => InError(Hosts[w])
            /\ RanCommand(w) => InOutput(Hosts[w])
            /\ CmdFailed(w) => InError(Hosts[w])

\* C3 witness: Start has returned in Capture mode while a worker that has
\* recorded its output has yet to run its deferred closes.
C3_Witness ==
    /\ ~PipeMode /\ ReturnedNil /\ Len(Hosts) >= 2
    /\ \E w \in Workers : pc[w] = "deferred" /\ conn[w] = "open" /\ InOutput(Hosts[w])

\* ---- C4
\* C4: in Capture mode with N >= 2 hosts whose commands all succeed, after
\* Start returns Output holds one entry for each host and nothing else, and
\* each host is mapped to the output of a worker that ran on it: with
\* distinct hosts, exactly N entries and each host mapped to its own output.
C4_NoLostOutput ==
    (~PipeMode /\ ReturnedNil /\ Len(Hosts) >= 2 /\ \A w \in Workers : Succeeded(w)) =>
        /\ DOMAIN Output = HostSet
        /\ DistinctHosts => Cardinality(DOMAIN Output) = Len(Hosts)
        /\ \A w \in Workers : Output[Hosts[w]] \in { o[v] : v \in SameHost(w) }
        /\ Error = EmptyMap

\* C4 witness: Start has returned with two distinct hosts, both successful,
\* each with an output of its own.
C4_Witness ==
    /\ ~PipeMode /\ ReturnedNil /\ Len(Hosts) >= 2 /\ DistinctHosts
    /\ \A w \in Workers : Succeeded(w) /\ Output[Hosts[w]] = o[w]
    /\ o[1] # o[2]

\* ---- C5
\* C5: every access of a worker to a shared map is made while that worker
\* holds the coordinator's lock, in both modes: a worker that is in the middle
\* of a map assignment holds the lock.
MapAssignPcs == {"dfStore", "sfStore", "cOutStore", "cErrStore",
                 "regStore", "stdoutStore", "stderrStore"}

C5_MapAccessUnderLock ==
    \A w \in Workers : pc[w] \in MapAssignPcs => lock = w

\* ---- C6
\* C6: in Stream mode, when the listener has received the readiness signal,
\* every worker has registered its session and readers and started its
\* command, or has recorded its dial or session failure in Error.
Registered(w) ==
    /\ pc[w] \in {"sessWait", "pipeDone", "deferred", "done"}
    /\ sess[w] # "none"

FailureRecorded(w) ==
    /\ DialFailed(w) \/ SessFailed(w)
    /\ pc[w] \in {"dfDone", "deferred", "done"}
    /\ InError(Hosts[w])

C6_ReadyAfterRegistration ==
    (PipeMode /\ listener = "got") =>
        \A w \in Workers : Registered(w) \/ FailureRecorded(w)

\* ---- C7
\* C7: in Stream mode with no listener on the readiness channel, the signal
\* does not block Start: once every worker of a non-empty host sequence has
\* ended and signalled completion, Start has returned or can take its next
\* step.
C7_NoListenerNoBlock ==
    (PipeMode /\ listener = "absent" /\ Len(Hosts) >= 1 /\ AllEnded /\ wg = 0) =>
        (Returned \/ ENABLED StartNext)

\* ---- C8
\* C8: with an empty host sequence, in either mode, Start launches no worker
\* and returns without blocking: until it has returned it can always take
\* its next step, and when it has returned Output and Error are empty.
C8_EmptyHostsNoBlock ==
    (Len(Hosts) = 0) =>
        /\ Returned \/ ENABLED StartNext
        /\ wg = 0
        /\ Output = EmptyMap /\ Error = EmptyMap

\* ---- C9
\* C9: Start returns a non-nil error exactly when a user is configured and
\* GetAuth fails, and then the error is GetAuth's; in that case no worker
\* is ever launched, no host is dialed, the barrier is never raised and all
\* maps stay empty.
C9_AuthErrorOnly ==
    /\ Returned => (ret # Nil <=> auth = "fail")
    /\ ret # Nil => Returned /\ ret = AuthErr
    /\ auth = "fail" =>
          /\ \A w \in Workers : pc[w] = "idle" /\ conn[w] = "none"
          /\ wg = 0
          /\ dialed = {}
          /\ MapsEmpty
          /\ startPc \in {"auth", "returned"}

\* C9 witness: Start has returned the error of GetAuth although hosts were
\* given, and ClosePipe has been called since.
C9_Witness ==
    /\ Returned /\ ret = AuthErr /\ auth = "fail" /\ Len(Hosts) >= 2
    /\ closePc = "done"

\* ---- C10
\* C10: in Capture mode a failure on one host neither changes what another
\* host's worker records nor stops it from finishing: a worker that was
\* launched and has not ended can take a step, or waits for the lock held
\* by a worker that can; and once all workers have ended, each host that
\* succeeded has the output of a worker of its own in Output and each host
\* that failed has the error text of a worker of its own in Error (with
\* distinct hosts: its own output, its own error text, and no entry that a
\* worker of another host made).
C10_FailuresIsolated ==
    ~PipeMode =>
        /\ \A w \in Workers :
              pc[w] \notin {"idle", "done"} =>
                  \/ ENABLED CommonWorker(w)
                  \/ ENABLED CaptureWorker(w)
                  \/ /\ lock \in Workers \ {w}
                     /\ ENABLED CommonWorker(lock) \/ ENABLED CaptureWorker(lock)
        /\ AllEnded =>
              \A w \in Workers :
                  /\ Failed(w) \/ Succeeded(w)
                  /\ Failed(w) =>
                        /\ InError(Hosts[w])
                        /\ Error[Hosts[w]] \in { ErrText(v) : v \in { u \in SameHost(w) : Failed(u) } }
                  /\ RanCommand(w) =>
                        /\ InOutput(Hosts[w])
                        /\ Output[Hosts[w]] \in { o[v] : v \in { u \in SameHost(w) : RanCommand(u) } }
                  /\ (DistinctHosts /\ Succeeded(w)) => ~InError(Hosts[w])
                  /\ (DistinctHosts /\ ~RanCommand(w)) => ~InOutput(Hosts[w])

\* C10 witness: all workers have ended on two distinct hosts: one recorded
\* its own output and the other, whose session could not be opened, its own
\* error.
C10_Witness ==
    /\ ~PipeMode /\ AllEnded /\ Len(Hosts) >= 2 /\ DistinctHosts
    /\ \E v, w \in Workers :
          /\ Succeeded(v) /\ Output[Hosts[v]] = o[v] /\ ~InError(Hosts[v])
          /\ SessFailed(w) /\ Error[Hosts[w]] = err[w] /\ ~InOutput(Hosts[w])

\* ---- C11
\* the hosts that are a key of one of the stream maps
StreamKeys == (DOMAIN Running) \cup (DOMAIN PipeOut) \cup (DOMAIN PipeError)

\* worker w has arrived at sess.Start(rc.Cmd) or is past it
ReachedSessStart(w) == pc[w] \in {"sessStart", "sessWait", "pipeDone", "deferred", "done"}

\* worker w has entered the branch if rc.PipeMode { ... }
InStreamBranch(w) ==
    pc[w] \in {"regLoad", "regStore", "stdoutPipe", "stdoutStore", "stderrPipe",
               "stderrStore"} \/ ReachedSessStart(w)

\* worker w ended after its dial or its session-open failed
EndedOnSetupFailure(w) == pc[w] = "done" /\ (DialFailed(w) \/ SessFailed(w))

\* C11 as stated: Running, PipeOut and PipeError are empty in Capture mode;
\* in Stream mode they contain only hosts whose dial and session-open both
\* succeeded and that reached session-start; a host whose dial or
\* session-open failed is (once its worker has ended) a key of Error and of
\* no other map.
C11_OnlyStartedSessions ==
    /\ ~PipeMode => StreamKeys = {}
    /\ \A h \in StreamKeys :
          \E w \in Workers :
              /\ Hosts[w] = h /\ conn[w] # "none" /\ sess[w] # "none"
              /\ ReachedSessStart(w)
    /\ \A w \in Workers :
          (EndedOnSetupFailure(w) /\ SameHost(w) = {w}) =>
              /\ InError(Hosts[w])
              /\ Hosts[w] \notin StreamKeys /\ ~InOutput(Hosts[w])

\* C11 amended: Running, PipeOut and PipeError are empty in Capture mode; in
\* Stream mode they contain only hosts whose dial and session-open both
\* succeeded and whose worker entered the stream branch (a host is entered
\* before its session is started, whether or not the start then succeeds); a
\* host whose dial or session-open failed is, once its worker has ended, a
\* key of Error with that worker's error text and, when no other worker
\* runs on the same host, a key of no other map.
C11_OnlyOpenedSessions ==
    /\ ~PipeMode => StreamKeys = {}
    /\ \A h \in StreamKeys :
          \E w \in Workers :
              /\ Hosts[w] = h /\ conn[w] # "none" /\ sess[w] # "none"
              /\ ~DialFailed(w) /\ ~SessFailed(w)
              /\ InStreamBranch(w)
    /\ \A w \in Workers :
          EndedOnSetupFailure(w) =>
              /\ InError(Hosts[w])
              /\ SameHost(w) = {w} =>
                    /\ Error[Hosts[w]] = err[w]
                    /\ Hosts[w] \notin StreamKeys /\ ~InOutput(Hosts[w])

\* C11 witness: in Stream mode one host is a key of Running while its worker
\* has yet to start the session, and another host, whose session could not
\* be opened, is a key of Error alone.
C11_Witness ==
    /\ PipeMode /\ DistinctHosts
    /\ \E v, w \in Workers :
          /\ Hosts[v] \in DOMAIN Running /\ pc[v] = "stdoutPipe"
          /\ EndedOnSetupFailure(w) /\ SessFailed(w) /\ InError(Hosts[w])
          /\ Hosts[w] \notin StreamKeys

\* ---- C12
\* the step taken is a call of ClosePipe
ClosePipeCalled == closePc = "idle" /\ closePc' = "done"

\* C12: a call of ClosePipe signals and closes exactly the sessions that are
\* values of Running, one per key of Running, and touches no other session;
\* with Running empty it changes no session and no command; it changes
\* neither Output nor Error nor any other map, it leaves what Start returns
\* alone and it stops no worker and does not stop Start.
C12_ClosePipeExact ==
    [][ClosePipeCalled =>
          /\ signalled' = { Running[h] : h \in DOMAIN Running }
          /\ Cardinality(signalled') = Cardinality(DOMAIN Running)
          /\ \A w \in Workers :
                /\ w \in signalled' => sess'[w] = "closed"
                /\ w \notin signalled' => sess'[w] = sess[w] /\ cmd'[w] = cmd[w]
          /\ DOMAIN Running = {} => signalled' = {} /\ sess' = sess /\ cmd' = cmd
          /\ Output' = Output /\ Error' = Error
          /\ Running' = Running /\ PipeOut' = PipeOut /\ PipeError' = PipeError
          /\ ret' = ret /\ pc' = pc /\ startPc' = startPc /\ wg' = wg
          /\ lock' = lock /\ conn' = conn]_vars

\* C12 witness: ClosePipe has been called, it closed the recorded session of
\* one host, and it left alone another host, whose dial had failed.
C12_Witness ==
    /\ closePc = "done" /\ signalled # {}
    /\ \E v, w \in Workers :
          /\ v \in signalled /\ sess[v] = "closed"
          /\ w \notin signalled /\ DialFailed(w) /\ sess[w] = "none"

\* C12 witness of the empty case: ClosePipe has been called in a run where no
\* host has a recorded session, and nothing was signalled.
C12_WitnessNoOp ==
    /\ closePc = "done" /\ signalled = {} /\ Len(Hosts) >= 1
    /\ \A w \in Workers : pc[w] = "done" /\ (DialFailed(w) \/ SessFailed(w))

\* ---- C13
\* t without its trailing newlines: the longest prefix of t that is empty or
\* ends with another character
Trimmed(t) ==
    LET ends == { k \in 0..Len(t) : k = 0 \/ t[k] # "\n" }
        last == CHOOSE k \in ends : \A j \in ends : j <= k
    IN  SubSeq(t, 1, last)

HasEmbeddedNewline(t) == \E i \in 1..Len(t) : t[i] = "\n"

\* h right-aligned in a field of LabelWidth characters
RightAligned(h) ==
    LET width == IF Len(h) > LabelWidth THEN Len(h) ELSE LabelWidth
        pad == width - Len(h)
    IN  [i \in 1..width |-> IF i <= pad THEN " " ELSE h[i - pad]]

\* the record of the text body for host h
OutputRecord(h, body, labels) ==
    (IF labels
     THEN RightAligned(h) \o <<":", " ">>
          \o (IF HasEmbeddedNewline(Trimmed(body)) THEN <<"\n">> ELSE << >>)
     ELSE << >>)
    \o Trimmed(body) \o <<"\n">>

\* the orders in which a range loop can produce the keys S
Orders(S) == { f \in [1..Cardinality(S) -> S] : \A i, j \in DOMAIN f : f[i] = f[j] => i = j }

RECURSIVE Concat(_)
Concat(ss) == IF Len(ss) = 0 THEN << >> ELSE Head(ss) \o Concat(Tail(ss))

\* the section header that precedes the records on the output stream
OutputRuleLine == IF noHeader THEN << >> ELSE OutputHeader \o <<"\n">>

\* the entries of Output the loop has gone through
Printed == (DOMAIN Output) \ ppTodo

\* C13: with compression disabled, what PrettyPrint has written to the
\* output stream is (after the section header, when headers are enabled)
\* exactly one record per Output entry gone through, in some order: with
\* labels enabled the host right-aligned in 15 characters, ": ", a newline
\* only if the trimmed body has an embedded newline, the body without its
\* trailing newlines, and one newline; with labels suppressed the trimmed
\* body and one newline.
C13_PlainRecords ==
    (~Gzip /\ ppPc \in {"outLoop", "done"}) =>
        \E order \in Orders(Printed) :
            wo = (IF DOMAIN Output # {} THEN OutputRuleLine ELSE << >>)
                 \o Concat([i \in DOMAIN order |->
                               OutputRecord(order[i], Output[order[i]], ~noHost)])

\* C13 witness: PrettyPrint has finished without compression and with
\* labels, one body having an embedded newline and another two trailing
\* newlines.
C13_Witness ==
    /\ ~Gzip /\ ppPc = "done" /\ ~noHost
    /\ \E g, h \in DOMAIN Output :
          /\ Output[g] = <<"x", "\n", "x">>
          /\ Output[h] = <<"x", "\n", "\n">>

\* C13 witness with labels suppressed
C13_WitnessNoLabels ==
    /\ ~Gzip /\ ppPc = "done" /\ noHost
    /\ \E h \in DOMAIN Output : Output[h] = <<"x", "\n", "\n">>

\* ---- C14
\* s is the gzip stream of a text
Decompresses(s) == \E t \in Texts : GzipOf(t) = s
TextOf(s) == CHOOSE t \in Texts : GzipOf(t) = s

\* the stored output of h has a valid gzip header but its body cannot be
\* read to the end
BodyReadFails(h) == NewReaderErr(Output[h]) = Nil /\ ReadAllErr(Output[h]) # Nil

\* C14: with compression enabled, a host whose stored output fails to
\* decompress (invalid gzip header, or a failure while reading the
\* compressed body) is logged and gets nothing at all on the output stream,
\* and every host whose output decompresses is rendered exactly as its text
\* would be without compression.
C14_FailedHostsSkipped ==
    (Gzip /\ ppPc \in {"outLoop", "done"}) =>
        /\ \E order \in Orders(Printed) :
              wo = (IF DOMAIN Output # {} THEN OutputRuleLine ELSE << >>)
                   \o Concat([i \in DOMAIN order |->
                                 IF Decompresses(Output[order[i]])
                                 THEN OutputRecord(order[i], TextOf(Output[order[i]]), ~noHost)
                                 ELSE << >>])
        /\ Len(logged) = Cardinality({ h \in Printed : ~Decompresses(Output[h]) })

\* the part of C14 that the code keeps: when no stored output fails in the
\* middle of its body, a host with an invalid gzip header is logged and gets
\* nothing on the output stream and the other hosts are rendered as their
\* text would be without compression.
C14_HeaderFailuresSkipped ==
    (\A h \in DOMAIN Output : ~BodyReadFails(h)) => C14_FailedHostsSkipped

\* a host with an invalid header was skipped next to a host that was rendered
C14_HeaderFailureSeen ==
    /\ Gzip /\ ppPc = "done"
    /\ \E g, h \in DOMAIN Output :
          /\ NewReaderErr(Output[g]) # Nil
          /\ Output[h] = GzipOf(<<"x", "\n", "x">>)

\* ---- C15
\* the record of the error text for host h: the host, " :", then the text
\* without its trailing newlines, after a space when it is a single line and
\* on the next line (after a space) when it has an embedded newline
ErrorRecord(h, text) ==
    h \o <<" ", ":">>
    \o (IF HasEmbeddedNewline(Trimmed(text)) THEN <<"\n", " ">> ELSE <<" ">>)
    \o Trimmed(text) \o <<"\n">>

\* the entries of Error the loop has gone through
PrintedErrors == IF ppPc = "errLoop" THEN (DOMAIN Error) \ ppTodo ELSE DOMAIN Error

\* what one Output entry puts on the output stream: a function of that
\* entry, C.Gzip and noHost alone
OutputBytes(h) ==
    IF ~Gzip THEN OutputRecord(h, Output[h], ~noHost)
    ELSE IF NewReaderErr(Output[h]) # Nil THEN << >>
    ELSE OutputRecord(h, ReadAllData(Output[h]), ~noHost)

\* C15: once PrettyPrint is called, the error stream holds something only
\* when Error is non-empty and host labels are not suppressed: then it
\* holds the section header iff headers are not suppressed, followed by
\* exactly one record per Error entry gone through (host label, then the
\* error text with its trailing newlines trimmed, on the next line iff it
\* has an embedded newline); otherwise it holds nothing.  The output stream
\* holds nothing while the error section runs and afterwards only the
\* header and the records of the Output entries, so no error text.
C15_ErrorStream ==
    ppPc # "idle" =>
        /\ IF DOMAIN Error # {} /\ ~noHost
           THEN \E order \in Orders(PrintedErrors) :
                   we = (IF noHeader THEN << >> ELSE ErrorHeader)
                        \o Concat([i \in DOMAIN order |->
                                      ErrorRecord(order[i], Error[order[i]])])
           ELSE we = << >>
        /\ ppPc \in {"errLoop", "outputs"} => wo = << >>
        /\ ppPc \in {"outLoop", "done"} =>
              \E order \in Orders(Printed) :
                 wo = (IF DOMAIN Output # {} THEN OutputRuleLine ELSE << >>)
                      \o Concat([i \in DOMAIN order |-> OutputBytes(order[i])])

\* C15 witness: PrettyPrint has finished with labels enabled, one error
\* text having an embedded newline and another a trailing newline.
C15_Witness ==
    /\ ppPc = "done" /\ ~noHost
    /\ \E g, h \in DOMAIN Error :
          /\ Error[g] = <<"\n", "x">>
          /\ Error[h] = <<"x", "\n">>

\* C15 witness with labels suppressed: Error is non-empty and nothing was
\* written to the error stream.
C15_WitnessNoLabels ==
    /\ ppPc = "done" /\ noHost /\ DOMAIN Error # {} /\ we = << >> /\ wo # << >>

\* ---- C16
\* the keys of the five maps and of the copies held by assignments in progress
AllKeys ==
    (DOMAIN Output) \cup (DOMAIN Error) \cup StreamKeys
    \cup UNION { DOMAIN tmp[w] : w \in Workers }

\* the addresses that exist only because execute appended the default port
AugmentedAddrs == { DialAddr(h) : h \in { x \in HostSet : NoPort(x) } } \ HostSet

\* C16: in every reachable state every key of Output, Error, Running,
\* PipeOut and PipeError is an element of Hosts and none is a port-augmented
\* address that execute made up for dialing, while ssh.Dial is only ever
\* given the augmented address; and no step of Start, of a worker or of
\* ClosePipe changes Hosts.
C16_KeysAreHosts ==
    /\ [](/\ AllKeys \subseteq HostSet
          /\ AllKeys \cap AugmentedAddrs = {}
          /\ dialed \subseteq { DialAddr(h) : h \in HostSet })
    /\ [][Hosts' = Hosts]_vars

\* C16 witness: a host given without a port was dialed at its augmented
\* address, and its results sit in the maps under the identifier as given:
\* in Stream mode in Running, PipeOut and PipeError, while another worker's
\* session failure for a port-less host sits in Error.
C16_Witness ==
    /\ PipeMode
    /\ \E v, w \in Workers :
          /\ NoPort(Hosts[w]) /\ DialAddr(Hosts[w]) \in dialed
          /\ DialAddr(Hosts[w]) # Hosts[w]
          /\ Hosts[w] \in (DOMAIN Running) \cap (DOMAIN PipeOut) \cap (DOMAIN PipeError)
          /\ NoPort(Hosts[v]) /\ SessFailed(v) /\ InError(Hosts[v])

\* ---- C17
\* worker w has terminated
Terminated(w) == pc[w] = "done"

\* C17: when a worker has terminated, its connection, if the dial
\* succeeded, is closed and its session, if one was opened, is closed,
\* whichever way the worker ended; and a connection is closed only once its
\* worker has terminated, when its command is no longer running.
C17_ClosedAtExit ==
    \A w \in Workers :
        /\ Terminated(w) =>
              /\ IF DialFailed(w) THEN conn[w] = "none" ELSE conn[w] = "closed"
              /\ IF DialFailed(w) \/ SessFailed(w)
                 THEN sess[w] = "none" ELSE sess[w] = "closed"
        /\ conn[w] = "closed" => Terminated(w) /\ cmd[w] # "running"
        /\ ~Terminated(w) /\ pc[w] \notin {"idle", "dial", "dfLock", "dfStore", "dfDone"}
              => conn[w] = "open"

\* C17 witness: one worker has terminated after its session could not be
\* opened and another after its command ended with an error; both
\* connections are closed.
C17_Witness ==
    \E v, w \in Workers :
        /\ Terminated(v) /\ SessFailed(v) /\ conn[v] = "closed" /\ sess[v] = "none"
        /\ Terminated(w) /\ cmd[w] = "exited" /\ e[w] # Nil
        /\ conn[w] = "closed" /\ sess[w] = "closed"

\* ---- C18
\* worker w has made its three map assignments of the stream branch
StoresDone(w) ==
    /\ pc[w] \in {"sessStart", "sessWait", "pipeDone", "deferred", "done"}
    /\ ~DialFailed(w) /\ ~SessFailed(w)

\* worker w of the stream branch has called rc.wg.Done()
SignalledCompletion(w) ==
    pc[w] \in {"deferred", "done"} /\ ~DialFailed(w) /\ ~SessFailed(w)

\* C18: in Stream mode a remote command is started only after its worker
\* has stored the session and both readers in the shared maps (with a
\* single worker they are then in the maps), the worker signals completion
\* only when the command it started is no longer running, and once Start
\* has returned no started remote command is still running.
C18_StreamOrder ==
    PipeMode =>
        /\ \A w \in Workers :
              /\ cmd[w] # "none" => StoresDone(w) /\ pc[w] # "sessStart"
              /\ pc[w] = "sessStart" => cmd[w] = "none"
              /\ pc[w] = "pipeDone" => cmd[w] # "running"
              /\ SignalledCompletion(w) => cmd[w] # "running"
        /\ Len(Hosts) = 1 /\ StoresDone(1) =>
              /\ Hosts[1] \in DOMAIN Running /\ Running[Hosts[1]] = 1
              /\ Hosts[1] \in (DOMAIN PipeOut) \cap (DOMAIN PipeError)
        /\ Returned => \A w \in Workers : cmd[w] # "running"

\* C18 witness: with a listener, Start has returned in Stream mode after a
\* remote command that was started ran and exited by itself.
C18_Witness ==
    /\ PipeMode /\ ReturnedNil /\ listener = "got" /\ closePc = "idle"
    /\ \E w \in Workers :
          /\ cmd[w] = "exited" /\ e[w] = Nil
          /\ Hosts[w] \in DOMAIN Running

\* ---- C19
\* worker w has run the command in Capture mode and left its critical section
StoredResults(w) == pc[w] \in {"cDone", "deferred", "done"}

\* C19: in Capture mode, once a worker whose command ended with an error
\* has stored its results, its host is a key of Error and of Output (when
\* the host occurs once in Hosts, with the error text and the captured
\* output of that worker, which may be empty); the worker holds the lock
\* from before the first store until after the second, so that whenever the
\* lock is not held by that worker the host is in both maps or in neither.
C19_ErrorAndOutputTogether ==
    ~PipeMode =>
        \A w \in Workers :
            /\ CmdFailed(w) /\ StoredResults(w) =>
                  /\ InError(Hosts[w]) /\ InOutput(Hosts[w])
                  /\ SameHost(w) = {w} =>
                        Error[Hosts[w]] = e[w] /\ Output[Hosts[w]] = o[w]
            /\ pc[w] \in {"cOutStore", "cErrStore"} => lock = w
            /\ CmdFailed(w) /\ SameHost(w) = {w} /\ lock # w =>
                  (InError(Hosts[w]) <=> InOutput(Hosts[w]))

\* C19 witness: a command that ended with an error and produced no output
\* has its error text in Error and the empty output in Output, next to a
\* worker whose failed command did produce output.
C19_Witness ==
    /\ ~PipeMode /\ DistinctHosts
    /\ \E v, w \in Workers :
          /\ CmdFailed(w) /\ StoredResults(w) /\ o[w] = ""
          /\ Error[Hosts[w]] = e[w] /\ Output[Hosts[w]] = ""
          /\ CmdFailed(v) /\ StoredResults(v) /\ o[v] # ""
          /\ Error[Hosts[v]] = e[v] /\ Output[Hosts[v]] = o[v]

\* ---- C20
\* the stream-mode execution of worker w failed after its session was opened:
\* a reader could not be obtained, or the command could not be started or
\* ended with an error (e holds the result of the last call, sess.Wait)
StreamFailed(w) ==
    /\ SignalledCompletion(w)
    /\ \/ e[w] # Nil
       \/ /\ SameHost(w) = {w}
          /\ \/ Hosts[w] \in DOMAIN PipeOut /\ PipeOut[Hosts[w]] = NilReader
             \/ Hosts[w] \in DOMAIN PipeError /\ PipeError[Hosts[w]] = NilReader

\* C20: in Stream mode, after Start returns, every host whose execution
\* failed after its session was opened (reader, start or command failure)
\* is a key of Error, as the hosts whose dial or session-open failed are.
C20_StreamFailuresRecorded ==
    (PipeMode /\ Returned) =>
        \A w \in Workers :
            (StreamFailed(w) \/ DialFailed(w) \/ SessFailed(w)) => InError(Hosts[w])

====
